---- MODULE Spec2Model ----
(***************************************************************************)
(* Model of the yaya_webhook service: the webhook handler                  *)
(* (YayayWebhookHandler), its authentication steps (validateTimestamp,     *)
(* verifySignature, generateSignature) and the detached ingestion task     *)
(* (saveWebhookToDatabase) writing the SQLite table "webhooks".            *)
(*                                                                         *)
(* Modelling conventions:                                                  *)
(*  - a text is a TLA+ string; the amount as received is a sequence of     *)
(*    one-character strings so that it can be parsed into a decimal;       *)
(*  - HMAC-SHA256 followed by hex encoding is an injective function of     *)
(*    (key, message): the pair <<key, message>>; the empty header is <<>>; *)
(*  - the wall clock is read in seconds and never goes backwards; time may *)
(*    pass (by at most one second per read) before every read of it;       *)
(*  - one SQL statement is one atomic step of the store (SQLite).          *)
(***************************************************************************)
EXTENDS Integers, Sequences, FiniteSets, TLC

(***************************************************************************)
(* Bounds of the model.                                                    *)
(***************************************************************************)
\* number of webhook deliveries (one handler invocation each)
MaxReq == 2
\* seconds the wall clock may advance during a run
MaxTicks == 1
\* characters of a hexadecimal digest that are told apart
DigestLen == 3

(***************************************************************************)
(* Program constants.                                                      *)
(***************************************************************************)
\* 5*time.Minute, as tolerance.Seconds()
Tolerance == 300
StatusOK == 200
StatusBadRequest == 400
\* the wall clock (Unix seconds) when the run starts
T0 == 1700000000

SecretKey == "secret"
OtherKey == "not-the-secret"

Handlers == 1..MaxReq
MaxClock == T0 + MaxTicks

VARIABLES
    clock,        \* wall clock, Unix seconds
    hpc,          \* hpc[h]: position of handler invocation h: idle, spawned, done
    request,      \* request[h]: the request as received: header token and body
    resp,         \* resp[h]: the Response written by invocation h
    tpc,          \* tpc[h]: position of the goroutine started by h: none, create, clock, exec, done
    req,          \* req[h]: the decoded YayaWebhook the goroutine closes over
    now,          \* now[h]: time.Now() read by saveWebhookToDatabase
    err,          \* err[h]: the error saveWebhookToDatabase returned ("" for nil)
    tableExists,  \* the table webhooks exists in the database file
    webhooks,     \* the rows of table webhooks, in insertion order
    healthResp,   \* the Response HealthCheckHandler wrote last
    latest,       \* history: the tasks whose upsert is the last committed one for its id
    lastAcked,    \* history: the invocation that wrote the success response last (0: none)
    startedAfter, \* history: startedAfter[h]: the tasks for the id of h that had returned nil
                  \* when the task of h started
    readResp,     \* what GetWebhookHandler or DebugWebhooksHandler wrote last
    rpc,          \* where the lookup and the listing in progress are, the id looked up, and
                  \* (history) how many ingestions of it had returned nil when the lookup began
    running       \* the server process is running (main has not returned)

vars == <<clock, hpc, request, resp, tpc, req, now, err, tableExists,
          webhooks, healthResp, latest, lastAcked, startedAfter, readResp, rpc, running>>

(***************************************************************************)
(* Texts and numbers.                                                      *)
(***************************************************************************)
Digits == <<"0", "1", "2", "3", "4", "5", "6", "7", "8", "9">>

DigitValue(c) == CHOOSE d \in 0..9 : Digits[d + 1] = c

IsDigit(c) == \E d \in 0..9 : Digits[d + 1] = c

\* fmt's %d of a non-negative integer
RECURSIVE Itoa(_)
Itoa(n) == IF n < 10 THEN Digits[n + 1] ELSE Itoa(n \div 10) \o Digits[(n % 10) + 1]

\* fmt's %d of an int64
FormatInt(n) == IF n < 0 THEN "-" \o Itoa(0 - n) ELSE Itoa(n)

RECURSIVE Pow10(_)
Pow10(k) == IF k = 0 THEN 1 ELSE 10 * Pow10(k - 1)

\* the characters of a sequence joined into one text
RECURSIVE Join(_)
Join(cs) == IF cs = <<>> THEN "" ELSE Head(cs) \o Join(Tail(cs))

\* the decimal digits of n, most significant first
RECURSIVE DigitSeq(_)
DigitSeq(n) == IF n < 10 THEN <<Digits[n + 1]>> ELSE Append(DigitSeq(n \div 10), Digits[(n % 10) + 1])

\* the value of a sequence of digits
RECURSIVE DigitsValue(_)
DigitsValue(cs) ==
    IF cs = <<>> THEN 0
    ELSE 10 * DigitsValue(SubSeq(cs, 1, Len(cs) - 1)) + DigitValue(cs[Len(cs)])

(***************************************************************************)
(* decimal.Decimal: an integer coefficient and a power of ten.             *)
(***************************************************************************)
\* the amount texts decimal accepts, among unsigned texts without exponent:
\* digits with at most one point among them
IsDecimalText(cs) ==
    /\ cs # <<>>
    /\ \A i \in 1..Len(cs) : IsDigit(cs[i]) \/ cs[i] = "."
    /\ Cardinality({i \in 1..Len(cs) : cs[i] = "."}) <= 1
    /\ \E i \in 1..Len(cs) : IsDigit(cs[i])

\* decimal.NewFromString, as Decimal.UnmarshalJSON calls it
NewFromString(cs) ==
    LET points == {i \in 1..Len(cs) : cs[i] = "."}
        p == IF points = {} THEN Len(cs) + 1 ELSE CHOOSE i \in points : TRUE
        intPart == SubSeq(cs, 1, p - 1)
        fracPart == SubSeq(cs, p + 1, Len(cs))
    IN  [value |-> DigitsValue(intPart \o fracPart), exp |-> 0 - Len(fracPart)]

\* the text without its trailing zeros
RECURSIVE TrimZeros(_)
TrimZeros(cs) ==
    IF cs # <<>> /\ cs[Len(cs)] = "0" THEN TrimZeros(SubSeq(cs, 1, Len(cs) - 1)) ELSE cs

\* Decimal.String: the canonical text, trailing zeros of the fraction trimmed
DecimalString(d) ==
    IF d.exp >= 0 THEN Itoa(d.value * Pow10(d.exp))
    ELSE LET str == DigitSeq(d.value)
             n == Len(str)
             intPart == IF n > 0 - d.exp THEN Join(SubSeq(str, 1, n + d.exp)) ELSE "0"
             frac == IF n > 0 - d.exp
                     THEN SubSeq(str, n + d.exp + 1, n)
                     ELSE [i \in 1..(0 - d.exp) |-> IF i <= (0 - d.exp) - n THEN "0" ELSE str[i - ((0 - d.exp) - n)]]
             trimmed == TrimZeros(frac)
         IN  IF trimmed = <<>> THEN intPart ELSE intPart \o "." \o Join(trimmed)

(***************************************************************************)
(* The request body and the event decoded from it.                         *)
(***************************************************************************)
\* json.Decoder.Decode into YayaWebhook: fails on text that is not JSON of the
\* expected shape and on an amount decimal cannot parse
Decodes(body) == body.wellFormed /\ IsDecimalText(body.amount)

Decode(body) ==
    [ID            |-> body.id,
     Amount        |-> NewFromString(body.amount),
     Currency      |-> body.currency,
     CreatedAtTime |-> body.created_at_time,
     TimeStamp     |-> body.timestamp,
     Cause         |-> body.cause,
     FullName      |-> body.full_name,
     AccountName   |-> body.account_name,
     InvoiceURL    |-> body.invoice_url]

(***************************************************************************)
(* Authentication.                                                         *)
(***************************************************************************)
\* hex(HMAC-SHA256(key, message)), character by character: injective in
\* (key, message)
Hmac(key, message) == [i \in 1..DigestLen |-> <<key, message, i>>]

\* the header YAYA-SIGNATURE is absent or empty
NoSignature == <<>>

\* the string generateSignature concatenates: "%s%s%s%d%d%s%s%s%s"
SignedPayload(payload) ==
    payload.ID \o DecimalString(payload.Amount) \o payload.Currency
        \o FormatInt(payload.CreatedAtTime) \o FormatInt(payload.TimeStamp)
        \o payload.Cause \o payload.FullName \o payload.AccountName \o payload.InvoiceURL

generateSignature(secretKey, payload) == Hmac(secretKey, SignedPayload(payload))

verifySignature(signature, payload) == signature = generateSignature(SecretKey, payload)

\* signature == signedPayload on strings: the number of leading characters
\* the comparison examines, none when the lengths differ, else up to the
\* first difference
ComparedCharacters(signature, signedPayload) ==
    IF Len(signature) # Len(signedPayload) THEN 0
    ELSE IF signature = signedPayload THEN Len(signature)
    ELSE CHOOSE k \in 1..Len(signature) :
           /\ signature[k] # signedPayload[k]
           /\ \A j \in 1..(k - 1) : signature[j] = signedPayload[j]

\* mutant of validateTimestamp: a send time in the future is taken as fresh
validateTimestampNoLowerBound(timestamp, tolerance, nowUnix) ==
    LET diff == nowUnix - timestamp
    IN  diff <= tolerance

\* validateTimestamp, given the value time.Now().Unix() returned
validateTimestamp(timestamp, tolerance, nowUnix) ==
    LET diff == nowUnix - timestamp
    IN  diff >= 0 /\ diff <= tolerance

\* the token the sender computes over the texts it sends
SenderSignature(key, body) ==
    Hmac(key, body.id \o Join(body.amount) \o body.currency
                \o FormatInt(body.created_at_time) \o FormatInt(body.timestamp)
                \o body.cause \o body.full_name \o body.account_name \o body.invoice_url)

(***************************************************************************)
(* Responses.                                                              *)
(***************************************************************************)
Response(status, message, error) == [StatusCode |-> status, Message |-> message, Error |-> error]

\* nothing written yet
NoResponse == Response(0, "", "")

ErrMissingSignature == Response(StatusBadRequest, "", "signature is missing")
\* mutant of ErrInvalidData: the text is put in Message as well
ErrInvalidDataInMessage == Response(StatusBadRequest, "invalid data", "invalid data")
ErrInvalidData == Response(StatusBadRequest, "", "invalid data")
ErrInvalidTimestamp == Response(StatusBadRequest, "", "invalid timestamp")
ErrInvalidSignature == Response(StatusBadRequest, "", "invalid signature")
Received == Response(StatusOK, "Webhook received successfully", "")
Healthy == Response(StatusOK, "Server is up and running", "")

(***************************************************************************)
(* The deliveries the sender (or a forger) makes.                          *)
(***************************************************************************)
Event(id, amount, timestamp, cause) ==
    [wellFormed      |-> TRUE,
     id              |-> id,
     amount          |-> amount,
     currency        |-> "ETB",
     created_at_time |-> T0,
     timestamp       |-> timestamp,
     cause           |-> cause,
     full_name       |-> "Abebe Kebede",
     account_name    |-> "abebekebede1",
     invoice_url     |-> "https://yayawallet.com/en/invoice/xxxx"]

\* a body that is not JSON of the expected shape
Garbled(body) == [body EXCEPT !.wellFormed = FALSE]

EvA1 == Event("abc123", <<"1", "0", "0">>, T0, "Testing")
\* a re-delivery of abc123 with changed amount and cause
EvA2 == Event("abc123", <<"2", ".", "5">>, T0, "Retry")
EvB1 == Event("def456", <<"1", "0", "0">>, T0, "Testing")
\* sent 301 seconds before the run starts
EvStale == Event("abc123", <<"1", "0", "0">>, T0 - (Tolerance + 1), "Testing")

Delivery(signature, body) == [sig |-> signature, body |-> body]

\* the deliveries of the concurrent model: one per rejection reason, and three
\* authentic ones, two of them carrying the same id
Deliveries ==
    { Delivery(NoSignature, EvA1),
      Delivery(SenderSignature(SecretKey, EvA1), Garbled(EvA1)),
      Delivery(SenderSignature(SecretKey, EvStale), EvStale),
      Delivery(SenderSignature(OtherKey, EvB1), EvB1),
      Delivery(SenderSignature(SecretKey, EvA1), EvA1),
      Delivery(SenderSignature(SecretKey, EvA2), EvA2),
      Delivery(SenderSignature(SecretKey, EvB1), EvB1) }

NoDelivery == Delivery(NoSignature, Garbled(Event("", <<>>, 0, "")))

\* the zero value of YayaWebhook (var req YayaWebhook)
ZeroWebhook ==
    [ID |-> "", Amount |-> [value |-> 0, exp |-> 0], Currency |-> "", CreatedAtTime |-> 0,
     TimeStamp |-> 0, Cause |-> "", FullName |-> "", AccountName |-> "", InvoiceURL |-> ""]

(***************************************************************************)
(* The store: table webhooks, id TEXT PRIMARY KEY.                         *)
(***************************************************************************)
\* the values saveWebhookToDatabase binds to the statement
Row(webhook, t) ==
    [id              |-> webhook.ID,
     amount          |-> DecimalString(webhook.Amount),
     currency        |-> webhook.Currency,
     created_at_time |-> webhook.CreatedAtTime,
     timestamp       |-> webhook.TimeStamp,
     cause           |-> webhook.Cause,
     full_name       |-> webhook.FullName,
     account_name    |-> webhook.AccountName,
     invoice_url     |-> webhook.InvoiceURL,
     created_at      |-> t,
     updated_at      |-> t]

\* mutant of DoUpdate: "cause = excluded.cause" is missing from the SET list
DoUpdateSkipsCause(old, excluded) ==
    [old EXCEPT !.amount          = excluded.amount,
                !.currency        = excluded.currency,
                !.created_at_time = excluded.created_at_time,
                !.timestamp       = excluded.timestamp,
                !.full_name       = excluded.full_name,
                !.account_name    = excluded.account_name,
                !.invoice_url     = excluded.invoice_url,
                !.updated_at      = excluded.updated_at]

\* mutant of DoUpdate: "updated_at = excluded.updated_at" is missing
DoUpdateKeepsUpdatedAt(old, excluded) ==
    [old EXCEPT !.amount          = excluded.amount,
                !.currency        = excluded.currency,
                !.created_at_time = excluded.created_at_time,
                !.timestamp       = excluded.timestamp,
                !.cause           = excluded.cause,
                !.full_name       = excluded.full_name,
                !.account_name    = excluded.account_name,
                !.invoice_url     = excluded.invoice_url]

\* mutant of DoUpdate: the row is replaced whole (INSERT OR REPLACE)
DoUpdateReplaces(old, excluded) == excluded

\* mutant of DoUpdate: ON CONFLICT(id) DO NOTHING
DoUpdateNothing(old, excluded) == old

\* ON CONFLICT(id) DO UPDATE SET ...: every column but id and created_at
DoUpdate(old, excluded) ==
    [old EXCEPT !.amount          = excluded.amount,
                !.currency        = excluded.currency,
                !.created_at_time = excluded.created_at_time,
                !.timestamp       = excluded.timestamp,
                !.cause           = excluded.cause,
                !.full_name       = excluded.full_name,
                !.account_name    = excluded.account_name,
                !.invoice_url     = excluded.invoice_url,
                !.updated_at      = excluded.updated_at]

\* mutant of Upsert: a plain INSERT into a table without the primary key
UpsertAlwaysInserts(table, row) == Append(table, row)

\* mutant of Upsert: on a conflict the SET list is applied to every row of the
\* table, not to the conflicting row alone
UpsertUpdatesEveryRow(table, row) ==
    IF \E k \in 1..Len(table) : table[k].id = row.id
    THEN [k \in 1..Len(table) |-> DoUpdate(table[k], row)]
    ELSE Append(table, row)

\* INSERT INTO webhooks ... ON CONFLICT(id) DO UPDATE SET ...
Upsert(table, row) ==
    IF \E k \in 1..Len(table) : table[k].id = row.id
    THEN [k \in 1..Len(table) |-> IF table[k].id = row.id THEN DoUpdate(table[k], row) ELSE table[k]]
    ELSE Append(table, row)

\* mutant of CreateTableIfNotExists: CREATE TABLE webhooks, which the store
\* rejects when the table exists
CreateTablePlain(exists, table) ==
    [ok |-> ~exists, rows |-> IF exists THEN table ELSE <<>>]

\* mutant of CreateTableIfNotExists: the table is dropped and created again
CreateTableAfresh(exists, table) ==
    [ok |-> TRUE, rows |-> <<>>]

\* CREATE TABLE IF NOT EXISTS webhooks (...): whether the statement succeeds,
\* and the rows of the table after it
CreateTableIfNotExists(exists, table) ==
    [ok |-> TRUE, rows |-> IF exists THEN table ELSE <<>>]

(***************************************************************************)
(* What the read handlers write: a Response as JSON, the text of           *)
(* http.Error, one webhook, or the list of all of them.                    *)
(***************************************************************************)
ReadResponse(kind, response, text, rows) ==
    [kind |-> kind, response |-> response, text |-> text, webhooks |-> rows]

\* nothing written yet
NoRead == ReadResponse("none", NoResponse, "", <<>>)

StatusNotFound == 404

\* http.Error(w, "Database error", http.StatusInternalServerError)
DatabaseError == ReadResponse("error", NoResponse, "Database error", <<>>)

\* the handler panicked: nothing is written, the server recovers and closes
\* the connection
Panicked == ReadResponse("panic", NoResponse, "", <<>>)

\* no lookup and no listing is between its two statements
NoReader == [get |-> "idle", id |-> "", began |-> 0, debug |-> "idle"]

ErrIdRequired == ReadResponse("response", Response(StatusBadRequest, "", "webhook ID is required"), "", <<>>)
ErrNotFound == ReadResponse("response", Response(StatusNotFound, "", "webhook not found"), "", <<>>)

\* mutant of SelectById: the WHERE clause is missing
SelectAnyId(table, id) == table

\* SELECT ... FROM webhooks WHERE id = ?
SelectById(table, id) == SelectSeq(table, LAMBDA row : row.id = id)

\* the nine columns GetWebhookHandler selects and returns
WebhookMap(row) ==
    [id              |-> row.id,
     amount          |-> row.amount,
     currency        |-> row.currency,
     created_at_time |-> row.created_at_time,
     timestamp       |-> row.timestamp,
     cause           |-> row.cause,
     full_name       |-> row.full_name,
     account_name    |-> row.account_name,
     invoice_url     |-> row.invoice_url]

\* SELECT ... FROM webhooks ORDER BY created_at DESC: the orders the query
\* may return the rows in (rows created at the same time come in any order)
OrderByCreatedAtDesc(table) ==
    LET n == Len(table)
        perms == {f \in [1..n -> 1..n] : \A i, j \in 1..n : i # j => f[i] # f[j]}
    IN  {[k \in 1..n |-> table[f[k]]] :
           f \in {g \in perms : \A k \in 1..n : k < n => table[g[k]].created_at >= table[g[k + 1]].created_at}}

(***************************************************************************)
(* Initial state: the server is up, no request received, no database file. *)
(***************************************************************************)
Init ==
    /\ clock = T0
    /\ hpc = [h \in Handlers |-> "idle"]
    /\ request = [h \in Handlers |-> NoDelivery]
    /\ resp = [h \in Handlers |-> NoResponse]
    /\ tpc = [h \in Handlers |-> "none"]
    /\ req = [h \in Handlers |-> ZeroWebhook]
    /\ now = [h \in Handlers |-> 0]
    /\ err = [h \in Handlers |-> ""]
    /\ tableExists = FALSE
    /\ webhooks = <<>>
    /\ healthResp = NoResponse
    /\ latest = {}
    /\ lastAcked = 0
    /\ startedAfter = [h \in Handlers |-> {}]
    /\ readResp = NoRead
    /\ rpc = NoReader
    /\ running = TRUE

\* the values a read of the wall clock may return
ClockReads == {t \in {clock, clock + 1} : t <= MaxClock}

(***************************************************************************)
(* YayayWebhookHandler.                                                    *)
(***************************************************************************)
\* mutant of Reject: the ingestion is started before the checks
RejectAfterSpawn(h, r) ==
    /\ resp' = [resp EXCEPT ![h] = r]
    /\ hpc' = [hpc EXCEPT ![h] = "done"]
    /\ tpc' = [tpc EXCEPT ![h] = "create"]

\* write an error Response and return
Reject(h, r) ==
    /\ resp' = [resp EXCEPT ![h] = r]
    /\ hpc' = [hpc EXCEPT ![h] = "done"]
    /\ UNCHANGED tpc

\* go func() { ... saveWebhookToDatabase(req) ... }()
Spawn(h) ==
    /\ tpc' = [tpc EXCEPT ![h] = "create"]
    /\ hpc' = [hpc EXCEPT ![h] = "spawned"]
    /\ UNCHANGED resp

\* mutant of YayayWebhookHandler: the signature is verified before the freshness
YayayWebhookHandlerSignatureFirst(h, signature, body) ==
    /\ running
    /\ UNCHANGED <<readResp, rpc, running>>
    /\ hpc[h] = "idle"
    /\ \A g \in Handlers : g < h => hpc[g] # "idle"
    /\ request' = [request EXCEPT ![h] = Delivery(signature, body)]
    /\ IF signature = NoSignature
       THEN Reject(h, ErrMissingSignature) /\ UNCHANGED <<clock, req>>
       ELSE IF ~Decodes(body)
       THEN Reject(h, ErrInvalidData) /\ UNCHANGED <<clock, req>>
       ELSE /\ req' = [req EXCEPT ![h] = Decode(body)]
            /\ IF ~verifySignature(signature, Decode(body))
               THEN Reject(h, ErrInvalidSignature) /\ UNCHANGED clock
               ELSE \E t \in ClockReads :
                      /\ clock' = t
                      /\ IF ~validateTimestamp(Decode(body).TimeStamp, Tolerance, t)
                         THEN Reject(h, ErrInvalidTimestamp)
                         ELSE Spawn(h)
    /\ UNCHANGED <<now, err, tableExists, webhooks, healthResp, latest, lastAcked, startedAfter>>

\* the handler from its entry to the go statement (or to its return on a
\* failed check); invocations are numbered in the order they are received
YayayWebhookHandler(h, signature, body) ==
    /\ running
    /\ UNCHANGED <<readResp, rpc, running>>
    /\ hpc[h] = "idle"
    /\ \A g \in Handlers : g < h => hpc[g] # "idle"
    /\ request' = [request EXCEPT ![h] = Delivery(signature, body)]
    /\ IF signature = NoSignature
       THEN Reject(h, ErrMissingSignature) /\ UNCHANGED <<clock, req>>
       ELSE IF ~Decodes(body)
       THEN Reject(h, ErrInvalidData) /\ UNCHANGED <<clock, req>>
       ELSE /\ req' = [req EXCEPT ![h] = Decode(body)]
            /\ \E t \in ClockReads :
                 /\ clock' = t
                 /\ IF ~validateTimestamp(Decode(body).TimeStamp, Tolerance, t)
                    THEN Reject(h, ErrInvalidTimestamp)
                    ELSE IF ~verifySignature(signature, Decode(body))
                    THEN Reject(h, ErrInvalidSignature)
                    ELSE Spawn(h)
    /\ UNCHANGED <<now, err, tableExists, webhooks, healthResp, latest, lastAcked, startedAfter>>

\* mutant of Respond: the handler waits for the task and reports its error
RespondAfterSave(h) ==
    /\ running
    /\ UNCHANGED <<readResp, rpc, running>>
    /\ hpc[h] = "spawned"
    /\ tpc[h] = "done"
    /\ resp' = [resp EXCEPT ![h] = IF err[h] = "" THEN Received ELSE Response(500, "", err[h])]
    /\ hpc' = [hpc EXCEPT ![h] = "done"]
    /\ lastAcked' = h
    /\ UNCHANGED <<clock, request, tpc, req, now, err, tableExists, webhooks,
                   healthResp, latest, startedAfter>>

\* the handler after the go statement: write the success Response and return
Respond(h) ==
    /\ running
    /\ UNCHANGED <<readResp, rpc, running>>
    /\ hpc[h] = "spawned"
    /\ resp' = [resp EXCEPT ![h] = Received]
    /\ hpc' = [hpc EXCEPT ![h] = "done"]
    /\ lastAcked' = h
    /\ UNCHANGED <<clock, request, tpc, req, now, err, tableExists, webhooks,
                   healthResp, latest, startedAfter>>

HealthCheckHandler ==
    /\ running
    /\ UNCHANGED <<readResp, rpc, running>>
    /\ healthResp' = Healthy
    /\ UNCHANGED <<clock, hpc, request, resp, tpc, req, now, err, tableExists,
                   webhooks, latest, lastAcked, startedAfter>>

(***************************************************************************)
(* saveWebhookToDatabase, run by the goroutine of invocation h, and the    *)
(* logging of its outcome (tpc = "done": err = "" logs success).           *)
(***************************************************************************)
\* mutant of Fail: the goroutine logs the error and runs the task again
FailRetries(h, e) ==
    /\ tpc' = [tpc EXCEPT ![h] = "create"]
    /\ err' = [err EXCEPT ![h] = e]

\* return fmt.Errorf(...) to the goroutine, which logs it
Fail(h, e) ==
    /\ tpc' = [tpc EXCEPT ![h] = "done"]
    /\ err' = [err EXCEPT ![h] = e]

\* mutant of CreateTable: one connection shared by all tasks, taken for the
\* length of the call
CreateTableExclusive(h) ==
    /\ running
    /\ UNCHANGED <<readResp, rpc, running>>
    /\ tpc[h] = "create"
    /\ \A g \in Handlers \ {h} : tpc[g] \in {"none", "create", "done"}
    /\ startedAfter' = [startedAfter EXCEPT ![h] = {g \in Handlers : tpc[g] = "done" /\ err[g] = "" /\ req[g].ID = req[h].ID}]
    /\ \/ /\ tableExists' = TRUE
          /\ webhooks' = CreateTableIfNotExists(tableExists, webhooks).rows
          /\ tpc' = [tpc EXCEPT ![h] = "clock"]
          /\ UNCHANGED err
       \/ /\ \E e \in {"failed to connect to database", "failed to create table"} : Fail(h, e)
          /\ UNCHANGED <<tableExists, webhooks>>
    /\ UNCHANGED <<clock, hpc, request, resp, req, now, healthResp, latest, lastAcked>>

\* sql.Open and CREATE TABLE IF NOT EXISTS webhooks
CreateTable(h) ==
    /\ running
    /\ UNCHANGED <<readResp, rpc, running>>
    /\ tpc[h] = "create"
    /\ startedAfter' = [startedAfter EXCEPT ![h] = {g \in Handlers : tpc[g] = "done" /\ err[g] = "" /\ req[g].ID = req[h].ID}]
    /\ \/ /\ CreateTableIfNotExists(tableExists, webhooks).ok
          /\ tableExists' = TRUE
          /\ webhooks' = CreateTableIfNotExists(tableExists, webhooks).rows
          /\ tpc' = [tpc EXCEPT ![h] = "clock"]
          /\ UNCHANGED err
       \/ /\ \E e \in {"failed to connect to database", "failed to create table"} : Fail(h, e)
          /\ UNCHANGED <<tableExists, webhooks>>
    /\ UNCHANGED <<clock, hpc, request, resp, req, now, healthResp, latest, lastAcked>>

\* now := time.Now()
ReadNow(h) ==
    /\ running
    /\ UNCHANGED <<readResp, rpc, running>>
    /\ tpc[h] = "clock"
    /\ \E t \in ClockReads :
         /\ clock' = t
         /\ now' = [now EXCEPT ![h] = t]
    /\ tpc' = [tpc EXCEPT ![h] = "exec"]
    /\ UNCHANGED <<hpc, request, resp, req, err, tableExists, webhooks, healthResp,
                   latest, lastAcked, startedAfter>>

\* mutant of ExecUpsert: the error is returned after the statement has been
\* applied
ExecUpsertWritesThenFails(h) ==
    /\ running
    /\ UNCHANGED <<readResp, rpc, running>>
    /\ tpc[h] = "exec"
    /\ \/ /\ tableExists
          /\ webhooks' = Upsert(webhooks, Row(req[h], now[h]))
          /\ latest' = (latest \ {g \in Handlers : req[g].ID = req[h].ID}) \cup {h}
          /\ tpc' = [tpc EXCEPT ![h] = "done"]
          /\ UNCHANGED err
       \/ /\ Fail(h, "failed to insert webhook")
          /\ webhooks' = Upsert(webhooks, Row(req[h], now[h]))
          /\ UNCHANGED latest
    /\ UNCHANGED <<clock, hpc, request, resp, req, now, tableExists, healthResp,
                   lastAcked, startedAfter>>

\* db.Exec(query, ...): the upsert commits, or the store rejects the statement
ExecUpsert(h) ==
    /\ running
    /\ UNCHANGED <<readResp, rpc, running>>
    /\ tpc[h] = "exec"
    /\ \/ /\ tableExists
          /\ webhooks' = Upsert(webhooks, Row(req[h], now[h]))
          /\ latest' = (latest \ {g \in Handlers : req[g].ID = req[h].ID}) \cup {h}
          /\ tpc' = [tpc EXCEPT ![h] = "done"]
          /\ UNCHANGED err
       \/ /\ Fail(h, "failed to insert webhook")
          /\ UNCHANGED <<webhooks, latest>>
    /\ UNCHANGED <<clock, hpc, request, resp, req, now, tableExists, healthResp,
                   lastAcked, startedAfter>>

(***************************************************************************)
(* The read handlers (not routed by main as it is in this revision).       *)
(***************************************************************************)
\* "/webhook/", character by character
WebhookPath == <<"/", "w", "e", "b", "h", "o", "o", "k", "/">>

\* the paths requested: without an id, with the two ids delivered, with one
\* never delivered, and one shorter than "/webhook/"
LookupPaths ==
    {WebhookPath \o cs : cs \in {<<>>, <<"a", "b", "c", "1", "2", "3">>,
                                 <<"d", "e", "f", "4", "5", "6">>,
                                 <<"z", "z", "z", "9", "9", "9">>}}
    \cup {<<"/", "w", "e", "b">>}

\* path[len("/webhook/"):]
PathId(path) == Join(SubSeq(path, Len(WebhookPath) + 1, Len(path)))

\* the ids looked up
LookupIds == {PathId(path) : path \in {p \in LookupPaths : Len(p) >= Len(WebhookPath)}}

\* GetWebhookHandler from its entry to the CREATE TABLE statement
GetWebhookHandler(path) ==
    /\ running
    /\ rpc.get = "idle"
    /\ IF Len(path) < Len(WebhookPath)
       THEN readResp' = Panicked /\ UNCHANGED <<tableExists, webhooks, rpc>>
       ELSE IF PathId(path) = ""
       THEN readResp' = ErrIdRequired /\ UNCHANGED <<tableExists, webhooks, rpc>>
       ELSE \/ readResp' = DatabaseError /\ UNCHANGED <<tableExists, webhooks, rpc>>
            \/ /\ CreateTableIfNotExists(tableExists, webhooks).ok
               /\ tableExists' = TRUE
               /\ webhooks' = CreateTableIfNotExists(tableExists, webhooks).rows
               /\ rpc' = [rpc EXCEPT !.get = "select", !.id = PathId(path),
                                     !.began = Cardinality({h \in Handlers :
                                        tpc[h] = "done" /\ err[h] = "" /\ req[h].ID = PathId(path)})]
               /\ UNCHANGED readResp
    /\ UNCHANGED <<clock, hpc, request, resp, tpc, req, now, err, healthResp, latest,
                   lastAcked, startedAfter, running>>

\* GetWebhookHandler from the SELECT statement to its return
GetWebhookQuery ==
    /\ running
    /\ rpc.get = "select"
    /\ LET rows == SelectById(webhooks, rpc.id)
       IN  \/ readResp' = DatabaseError
           \/ readResp' = IF rows = <<>>
                          THEN ErrNotFound
                          ELSE ReadResponse("webhook", NoResponse, "", <<WebhookMap(rows[1])>>)
    /\ rpc' = [rpc EXCEPT !.get = "idle", !.id = "", !.began = 0]
    /\ UNCHANGED <<clock, hpc, request, resp, tpc, req, now, err, tableExists, webhooks,
                   healthResp, latest, lastAcked, startedAfter, running>>

\* DebugWebhooksHandler from its entry to the CREATE TABLE statement
DebugWebhooksHandler ==
    /\ running
    /\ rpc.debug = "idle"
    /\ \/ readResp' = DatabaseError /\ UNCHANGED <<tableExists, webhooks, rpc>>
       \/ /\ CreateTableIfNotExists(tableExists, webhooks).ok
          /\ tableExists' = TRUE
          /\ webhooks' = CreateTableIfNotExists(tableExists, webhooks).rows
          /\ rpc' = [rpc EXCEPT !.debug = "select"]
          /\ UNCHANGED readResp
    /\ UNCHANGED <<clock, hpc, request, resp, tpc, req, now, err, healthResp, latest,
                   lastAcked, startedAfter, running>>

\* for rows.Next() { ... }: the rows the loop reads, all of them or, when the
\* store fails while they are fetched, those read before the failure
\* (rows.Err() is not consulted)
RowsFetched(rows) == {SubSeq(rows, 1, n) : n \in 0..Len(rows)}

\* DebugWebhooksHandler from the SELECT statement to its return: db.Query
\* fails, or the rows fetched are listed
DebugWebhooksQuery ==
    /\ running
    /\ rpc.debug = "select"
    /\ \/ readResp' = DatabaseError
       \/ \E rows \in OrderByCreatedAtDesc(webhooks) :
            \E fetched \in RowsFetched(rows) :
              readResp' = ReadResponse("list", NoResponse, "", fetched)
    /\ rpc' = [rpc EXCEPT !.debug = "idle"]
    /\ UNCHANGED <<clock, hpc, request, resp, tpc, req, now, err, tableExists, webhooks,
                   healthResp, latest, lastAcked, startedAfter, running>>

(***************************************************************************)
(* main returns after stopServer: the process ends, and with it every      *)
(* goroutine still running.  Shutdown waits for the handlers until the     *)
(* configured timeout; it does not know of the detached goroutines.        *)
(***************************************************************************)
StopServer ==
    /\ running
    /\ running' = FALSE
    /\ UNCHANGED <<clock, hpc, request, resp, tpc, req, now, err, tableExists, webhooks,
                   healthResp, latest, lastAcked, startedAfter, readResp, rpc>>

Next ==
    \/ \E h \in Handlers : \E d \in Deliveries : YayayWebhookHandler(h, d.sig, d.body)
    \/ \E h \in Handlers : Respond(h)
    \/ \E h \in Handlers : CreateTable(h)
    \/ \E h \in Handlers : ReadNow(h)
    \/ \E h \in Handlers : ExecUpsert(h)

Spec == Init /\ [][Next]_vars

(***************************************************************************)
(* The same deliveries, received by a server that starts on the database   *)
(* file an earlier run left behind: the store is a file (dbPath), so the   *)
(* table and its rows outlive the process.                                 *)
(***************************************************************************)
\* the event def456 as the earlier run received it, Tolerance seconds before
\* this run starts
EvStored == Event("def456", <<"7", "5">>, T0 - Tolerance, "Earlier")

\* the row the earlier run wrote for it, on arrival
StoredRow == Row(Decode(EvStored), T0 - Tolerance)

InitStored ==
    /\ clock = T0
    /\ hpc = [h \in Handlers |-> "idle"]
    /\ request = [h \in Handlers |-> NoDelivery]
    /\ resp = [h \in Handlers |-> NoResponse]
    /\ tpc = [h \in Handlers |-> "none"]
    /\ req = [h \in Handlers |-> ZeroWebhook]
    /\ now = [h \in Handlers |-> 0]
    /\ err = [h \in Handlers |-> ""]
    /\ tableExists = TRUE
    /\ webhooks = <<StoredRow>>
    /\ healthResp = NoResponse
    /\ latest = {}
    /\ lastAcked = 0
    /\ startedAfter = [h \in Handlers |-> {}]
    /\ readResp = NoRead
    /\ rpc = NoReader
    /\ running = TRUE

SpecStored == InitStored /\ [][Next]_vars

(***************************************************************************)
(* A single delivery drawn from every combination of header token and      *)
(* body, with the health check: the specification of the claims about      *)
(* authentication and about the responses.                                 *)
(***************************************************************************)
\* send times around both ends of the freshness window
SingleTimestamps ==
    {T0 - (Tolerance + 1), T0 - Tolerance, T0 - (Tolerance - 1), T0 - 1, T0, T0 + 1,
     T0 + MaxTicks + 1}

\* amounts as sent: canonical, with a trailing zero, and not a decimal
SingleAmounts == {<<"1", "0", "0">>, <<"2", ".", "5">>, <<"2", ".", "5", "0">>, <<"1", "o", "o">>}

SingleBodies ==
    LET events == {Event("abc123", a, t, "Testing") : a \in SingleAmounts, t \in SingleTimestamps}
    IN  events \cup {Garbled(e) : e \in events}

\* a guess of a token: its first k characters are right
Guess(token, k) ==
    [i \in 1..Len(token) |-> IF i <= k THEN token[i] ELSE <<OtherKey, "", i>>]

\* the token of the sender for this body, one under another key, one of the
\* sender for another body, guesses right up to some character, the token
\* cut short, and none
SingleTokens(body) ==
    {NoSignature,
     SenderSignature(SecretKey, body),
     SenderSignature(OtherKey, body),
     SenderSignature(SecretKey, [body EXCEPT !.cause = "Refund"])}
    \cup {Guess(SenderSignature(SecretKey, body), k) : k \in 1..(DigestLen - 1)}
    \cup {SubSeq(SenderSignature(SecretKey, body), 1, DigestLen - 1)}

NextSingle ==
    \/ \E body \in SingleBodies : \E token \in SingleTokens(body) : YayayWebhookHandler(1, token, body)
    \/ Respond(1)
    \/ CreateTable(1)
    \/ ReadNow(1)
    \/ ExecUpsert(1)
    \/ HealthCheckHandler

SpecSingle == Init /\ [][NextSingle]_vars

(***************************************************************************)
(* The first two deliveries, of any kind, with their ingestions.           *)
(***************************************************************************)
Writers == {h \in Handlers : h <= 2}

NextPair ==
    \/ \E h \in Writers : \E d \in Deliveries : YayayWebhookHandler(h, d.sig, d.body)
    \/ \E h \in Writers : Respond(h)
    \/ \E h \in Writers : CreateTable(h)
    \/ \E h \in Writers : ReadNow(h)
    \/ \E h \in Writers : ExecUpsert(h)

SpecPair == Init /\ [][NextPair]_vars

(***************************************************************************)
(* The first two deliveries with their ingestions, interleaved with the    *)
(* read handlers.                                                          *)
(***************************************************************************)

\* the deliveries of the runs with reads: a forged one and the authentic ones
ReadDeliveries == {d \in Deliveries : d.sig # NoSignature /\ Decodes(d.body) /\ d.body.timestamp = T0}

NextRead ==
    \/ \E h \in Writers : \E d \in ReadDeliveries : YayayWebhookHandler(h, d.sig, d.body)
    \/ \E h \in Writers : Respond(h)
    \/ \E h \in Writers : CreateTable(h)
    \/ \E h \in Writers : ReadNow(h)
    \/ \E h \in Writers : ExecUpsert(h)
    \/ \E path \in LookupPaths : GetWebhookHandler(path)
    \/ GetWebhookQuery
    \/ DebugWebhooksHandler
    \/ DebugWebhooksQuery

SpecRead == Init /\ [][NextRead]_vars

(***************************************************************************)
(* The deliveries and their ingestions with the shutdown of the server,    *)
(* under a fair scheduler and a store that answers: a goroutine that can   *)
(* take its next step takes it.                                            *)
(***************************************************************************)
NextLive ==
    \/ \E h \in Writers : \E d \in ReadDeliveries : YayayWebhookHandler(h, d.sig, d.body)
    \/ \E h \in Writers : Respond(h)
    \/ \E h \in Writers : CreateTable(h)
    \/ \E h \in Writers : ReadNow(h)
    \/ \E h \in Writers : ExecUpsert(h)
    \/ StopServer

SpecLive ==
    /\ Init
    /\ [][NextLive]_vars
    /\ \A h \in Writers :
         WF_vars(Respond(h)) /\ WF_vars(CreateTable(h)) /\ WF_vars(ReadNow(h)) /\ WF_vars(ExecUpsert(h))

(***************************************************************************)
(* Properties.                                                             *)
(***************************************************************************)
\* invocation h runs from its entry to its first return or to the go statement
Handles(h) == hpc[h] = "idle" /\ hpc'[h] # "idle"

\* the send time is within the window of the time validateTimestamp read,
\* which is the value of the clock after the step
InWindow(timestamp, t) == 0 <= t - timestamp /\ t - timestamp <= 300

\* C3: the handler checks, in this order, that the signature header is
\* present, that the body decodes, that the send time is fresh and that the
\* signature matches, and answers with the error of the first check that
\* fails; a request that passes all four starts the ingestion task.
C3_CheckOrder ==
    [][\A h \in Handlers :
         Handles(h) =>
           LET signature == request'[h].sig
               body == request'[h].body
           IN  IF signature = NoSignature
               THEN hpc'[h] = "done" /\ resp'[h] = ErrMissingSignature
               ELSE IF ~Decodes(body)
               THEN hpc'[h] = "done" /\ resp'[h] = ErrInvalidData
               ELSE IF ~InWindow(body.timestamp, clock')
               THEN hpc'[h] = "done" /\ resp'[h] = ErrInvalidTimestamp
               ELSE IF signature # generateSignature(SecretKey, Decode(body))
               THEN hpc'[h] = "done" /\ resp'[h] = ErrInvalidSignature
               ELSE hpc'[h] = "spawned" /\ tpc'[h] = "create"]_vars

\* C3 witness: a correctly signed delivery sent 301 seconds ago was answered
\* "invalid timestamp".
C3_Witness ==
    /\ hpc[1] = "done"
    /\ request[1].body.wellFormed
    /\ request[1].body.timestamp = T0 - 301
    /\ request[1].sig = generateSignature(SecretKey, Decode(request[1].body))
    /\ resp[1] = ErrInvalidTimestamp

\* C4: a delivery whose header is present and whose body decodes passes the
\* freshness check exactly when 0 <= now - timestamp <= 300, now being the
\* time read by the check; a timestamp in the future is rejected.
C4_FreshnessWindow ==
    [][\A h \in Handlers :
         (Handles(h) /\ request'[h].sig # NoSignature /\ Decodes(request'[h].body)) =>
           LET diff == clock' - request'[h].body.timestamp
           IN  (resp'[h] # ErrInvalidTimestamp) <=> (0 <= diff /\ diff <= 300)]_vars

\* C4 witness: a delivery sent exactly 300 seconds before the check was
\* accepted (the clock has not moved since the run started).
C4_Witness ==
    /\ hpc[1] = "spawned"
    /\ clock = T0
    /\ request[1].body.timestamp = T0 - 300

\* the delivery of invocation h passed all checks
Accepted(h) == tpc[h] # "none"

\* a Response with a status code and exactly one of Message and Error
WellFormedResponse(r) ==
    /\ r.StatusCode \in {200, 400}
    /\ (r.Message = "") # (r.Error = "")

\* C7: every Response written by YayayWebhookHandler or HealthCheckHandler has
\* a status code and exactly one of Message and Error; the webhook handler
\* fills Error on its rejections and Message on acceptance.
C7_ResponseShape ==
    /\ \A h \in Handlers :
         /\ hpc[h] = "done" => resp[h] # NoResponse
         /\ resp[h] # NoResponse =>
              /\ WellFormedResponse(resp[h])
              /\ (resp[h].Message # "") <=> Accepted(h)
              /\ (resp[h].Error # "") <=> ~Accepted(h)
    /\ healthResp # NoResponse => WellFormedResponse(healthResp) /\ healthResp.Message # ""

\* C7 witness: the health check and a rejection for an undecodable body have
\* both been answered.
C7_Witness ==
    /\ healthResp # NoResponse
    /\ hpc[1] = "done"
    /\ request[1].sig # NoSignature
    /\ ~Decodes(request[1].body)

(***************************************************************************)
(* Properties of the store under concurrent deliveries.                    *)
(***************************************************************************)
\* saveWebhookToDatabase of invocation h returned nil
Saved(h) == tpc[h] = "done" /\ err[h] = ""

\* the task of invocation h has executed its upsert statement
WriteAttempted(h) == tpc[h] = "done" /\ err[h] \in {"", "failed to insert webhook"}

\* the positions of the rows for an id
RowsOf(id) == {k \in 1..Len(webhooks) : webhooks[k].id = id}

\* the non-key payload fields of a row
Payload(row) ==
    <<row.amount, row.currency, row.created_at_time, row.timestamp, row.cause,
      row.full_name, row.account_name, row.invoice_url>>

\* the payload fields the event of invocation h is stored with
PayloadOf(h) ==
    <<DecimalString(req[h].Amount), req[h].Currency, req[h].CreatedAtTime, req[h].TimeStamp,
      req[h].Cause, req[h].FullName, req[h].AccountName, req[h].InvoiceURL>>

\* invocations g and h delivered the same id, and both were accepted
SameId(g, h) == Accepted(g) /\ Accepted(h) /\ req[g].ID = req[h].ID

\* C1: the table never holds two rows with the same id.
C1_OneRowPerId ==
    \A i, j \in 1..Len(webhooks) : i # j => webhooks[i].id # webhooks[j].id

\* C1 witness: two ingestions of the same id have both committed.
C1_Witness ==
    \E g, h \in Handlers : g # h /\ SameId(g, h) /\ Saved(g) /\ Saved(h)

\* C2: at every point, the payload fields of the row of an id are, in full,
\* those of the one delivery of that id whose upsert committed last.
C2_NoFieldMix ==
    \A k \in 1..Len(webhooks) :
      LET writers == {h \in latest : req[h].ID = webhooks[k].id}
      IN  /\ Cardinality(writers) = 1
          /\ \A h \in writers : Saved(h) /\ Payload(webhooks[k]) = PayloadOf(h)

\* C2 witness: two ingestions of the same id with different payloads ran
\* concurrently (neither had returned when the other started) and committed.
C2_Witness ==
    \E g, h \in Handlers :
      /\ g # h /\ SameId(g, h) /\ PayloadOf(g) # PayloadOf(h)
      /\ Saved(g) /\ Saved(h)
      /\ g \notin startedAfter[h] /\ h \notin startedAfter[g]

\* C5 (as claimed): while the handler has not yet written the success
\* response of a request, the ingestion task of that request has not executed
\* its write.
C5_ResponseBeforePersistence ==
    \A h \in Handlers : hpc[h] = "spawned" => ~WriteAttempted(h)

\* C6: an accepted request is answered with the success response whatever
\* its ingestion does (pending, saved, failed); the handler can always write
\* it without waiting for the task; no response carries a persistence error.
C6_ResponseIgnoresIngestion ==
    \A h \in Handlers :
      /\ (Accepted(h) /\ hpc[h] = "done") => resp[h] = Received
      /\ hpc[h] = "spawned" => ENABLED Respond(h)
      /\ resp[h].Error \notin {"failed to connect to database", "failed to create table",
                               "failed to insert webhook"}

\* C6 witness: a request was answered with success and its write failed.
C6_Witness ==
    \E h \in Handlers :
      hpc[h] = "done" /\ resp[h] = Received /\ err[h] = "failed to insert webhook"

\* C8: after two ingestions of the same event in sequence (the second started
\* after the first returned nil), and no other delivery of that id, there is
\* exactly one row for the id; it holds the event, created_at is the time of
\* the first write, updated_at the time of the second, which is not earlier.
C8_SequentialIdempotent ==
    \A g, h \in Handlers :
      ( /\ g # h /\ SameId(g, h) /\ req[g] = req[h]
        /\ Saved(g) /\ Saved(h) /\ g \in startedAfter[h]
        /\ \A k \in Handlers \ {g, h} : ~SameId(k, h) )
      => /\ Cardinality(RowsOf(req[h].ID)) = 1
         /\ \A k \in RowsOf(req[h].ID) :
              /\ Payload(webhooks[k]) = PayloadOf(h)
              /\ webhooks[k].created_at = now[g]
              /\ webhooks[k].updated_at = now[h]
              /\ now[g] <= now[h]

\* C8 witness: the same event was ingested twice in sequence, the clock
\* having advanced between the two writes.
C8_Witness ==
    \E g, h \in Handlers :
      /\ g # h /\ SameId(g, h) /\ req[g] = req[h]
      /\ Saved(g) /\ Saved(h) /\ g \in startedAfter[h]
      /\ now[g] < now[h]

\* the task of invocation h commits its upsert in this step
Commits(h) == tpc[h] = "exec" /\ tpc'[h] = "done" /\ err'[h] = ""

\* C9: no step removes a row or changes the id or created_at of a row; a row
\* changes only by a committing upsert for its own id, so a committing upsert
\* leaves every row of another id as it was; a new row is created by a
\* committing upsert and created_at is the time that task read.
C9_Frame ==
    [][/\ Len(webhooks') >= Len(webhooks)
       /\ \A k \in 1..Len(webhooks) :
            /\ webhooks'[k].id = webhooks[k].id
            /\ webhooks'[k].created_at = webhooks[k].created_at
            /\ webhooks'[k] # webhooks[k] =>
                 \E h \in Handlers : Commits(h) /\ req[h].ID = webhooks[k].id
       /\ \A h \in Handlers : Commits(h) =>
            \A k \in 1..Len(webhooks) :
              webhooks[k].id # req[h].ID => webhooks'[k] = webhooks[k]
       /\ \A k \in (Len(webhooks) + 1)..Len(webhooks') :
            \E h \in Handlers :
              /\ Commits(h) /\ req[h].ID = webhooks'[k].id
              /\ webhooks'[k].created_at = now[h]]_vars

\* C9 witness: two deliveries of abc123 with different payloads were both
\* saved, the second of them by the update branch, while the table held the
\* row of def456 the earlier run wrote; that row is as it was stored and the
\* row of abc123 has the created_at of the task that inserted it and the
\* updated_at of the task that updated it.
C9_Witness ==
    \E g, h \in Handlers :
      /\ g # h /\ SameId(g, h)
      /\ Saved(g) /\ Saved(h)
      /\ PayloadOf(g) # PayloadOf(h)
      /\ h \in latest /\ StoredRow.id # req[h].ID
      /\ \E k \in 1..Len(webhooks) : webhooks[k] = StoredRow
      /\ \E k \in 1..Len(webhooks) :
           /\ webhooks[k].id = req[h].ID
           /\ Payload(webhooks[k]) = PayloadOf(h)
           /\ webhooks[k].created_at = now[g]
           /\ webhooks[k].updated_at = now[h]

\* every accepted delivery of the id was answered and its ingestion returned nil
AllIngested(id) ==
    \A g \in Handlers : (Accepted(g) /\ req[g].ID = id) => (hpc[g] = "done" /\ Saved(g))

\* invocation h is the accepted delivery of its id that was received last
LatestDelivery(h) == Accepted(h) /\ \A g \in Handlers : SameId(g, h) => g <= h

\* C10 (as claimed): once all ingestions of an id have completed successfully,
\* the row holds the payload of the delivery of that id that was received last
\* and acknowledged last.
C10_MostRecentDeliveryStored ==
    \A h \in Handlers :
      (LatestDelivery(h) /\ lastAcked = h /\ AllIngested(req[h].ID))
      => \A k \in RowsOf(req[h].ID) : Payload(webhooks[k]) = PayloadOf(h)

\* C10 (amended): once all ingestions of an id have completed successfully,
\* the row holds the payload of the delivery whose upsert committed last; that
\* is the delivery received last whenever the ingestion of every earlier
\* delivery of the id had returned before the ingestion of the last started.
C10_LastCommitStored ==
    \A h \in Handlers :
      (Accepted(h) /\ AllIngested(req[h].ID))
      => /\ RowsOf(req[h].ID) # {}
         /\ h \in latest =>
              \A k \in RowsOf(req[h].ID) : Payload(webhooks[k]) = PayloadOf(h)
         /\ ( /\ LatestDelivery(h)
              /\ \A g \in Handlers : (g # h /\ SameId(g, h)) => g \in startedAfter[h] )
            => h \in latest

\* C10 witness: two deliveries of one id with different payloads were
\* ingested one after the other.
C10_Witness ==
    \E g, h \in Handlers :
      /\ g < h /\ SameId(g, h) /\ PayloadOf(g) # PayloadOf(h)
      /\ AllIngested(req[h].ID) /\ g \in startedAfter[h]

(***************************************************************************)
(* Properties of the life of a row, of the task and of the reads.          *)
(***************************************************************************)
\* the ids the sender delivers
EventIds == {d.body.id : d \in Deliveries}

\* the number of ingestions of the id that have returned nil: 0 is Unknown,
\* n > 0 is Stored(n)
Stage(id) == Cardinality({h \in Handlers : Saved(h) /\ req[h].ID = id})

\* C11: per id the store goes Unknown -> Stored(1) -> Stored(2) -> ...: the id
\* has a row exactly when an ingestion of it has succeeded; a step advances
\* the stage by at most one, and exactly when an upsert for the id commits (the
\* first creating the row); no step of a webhook, of a lookup, of the listing
\* or of a failing ingestion removes the row of an id.
C11_StoredStages ==
    [][\A id \in EventIds :
         LET stage == Stage(id)
             stageAfter == Stage(id)'
             rows == RowsOf(id)
             rowsAfter == RowsOf(id)'
         IN  /\ (rows # {}) <=> (stage >= 1)
             /\ (rowsAfter # {}) <=> (stageAfter >= 1)
             /\ stageAfter \in {stage, stage + 1}
             /\ (stageAfter = stage + 1) <=> (\E h \in Handlers : Commits(h) /\ req[h].ID = id)
             /\ rows # {} => rowsAfter # {}
             /\ Cardinality(rowsAfter) <= 1]_vars

\* C11 witness: an id is at Stored(2) and the listing has been read.
C11_Witness ==
    /\ \E id \in EventIds : Stage(id) = 2 /\ RowsOf(id) # {}
    /\ readResp.kind = "list"

\* C12 (as claimed): under a fair scheduler and a store that answers, the
\* ingestion task of every request that passed all checks eventually returns
\* (nil or an error) and its outcome is logged, whatever becomes of the request.
C12_IngestionCompletes ==
    \A h \in Handlers : (tpc[h] # "none") ~> (tpc[h] = "done")

\* the steps the goroutine of one request takes, in the order of the code
TaskStep(from, to) ==
    <<from, to>> \in {<<"none", "create">>, <<"create", "clock">>, <<"create", "done">>,
                      <<"clock", "exec">>, <<"exec", "done">>}

\* the task of invocation h returns an error in this step
Fails(h) == tpc[h] # "done" /\ tpc'[h] = "done" /\ err'[h] # ""

\* C13: a failure of the ingestion is terminal.  The task of a request is
\* started once, by the handler step that accepts the request, and moves
\* forward only: it executes its upsert at most once; once it has returned,
\* with an error or without, it takes no further step, its logged outcome
\* stays, and no later change of the table is made by it; the failing step
\* changes nothing but the outcome of that task.
C13_FailureTerminal ==
    [][\A h \in Handlers :
         /\ tpc'[h] # tpc[h] => TaskStep(tpc[h], tpc'[h])
         /\ (tpc[h] = "none" /\ tpc'[h] = "create") <=> (Handles(h) /\ hpc'[h] = "spawned")
         /\ tpc[h] = "done" =>
              /\ tpc'[h] = "done" /\ err'[h] = err[h]
              /\ webhooks' # webhooks => \E g \in Handlers \ {h} : Commits(g)
         /\ tpc[h] # "done" => err[h] = ""
         /\ Fails(h) =>
              /\ err'[h] \in {"failed to connect to database", "failed to create table",
                              "failed to insert webhook"}
              /\ UNCHANGED <<webhooks, tableExists, hpc, resp, latest>>
              /\ \A g \in Handlers \ {h} : tpc'[g] = tpc[g] /\ err'[g] = err[g]]_vars

\* C13 witness: the write of an accepted request failed, the task has
\* returned, and the id has no row.
C13_Witness ==
    \E h \in Handlers :
      tpc[h] = "done" /\ err[h] = "failed to insert webhook" /\ RowsOf(req[h].ID) = {}

\* the next request to arrive is received by invocation h
NextToArrive(h) == hpc[h] = "idle" /\ \A g \in Handlers : g < h => hpc[g] # "idle"

\* C14: whatever the earlier requests have come to (rejected, their write
\* failed, their task stopped for ever at any point), the next request can be
\* received and is run through the checks, an accepted request can be
\* answered, and the task of any accepted request can take each of its steps
\* to a successful write: nothing waits for another request or task.
C14_NoBlocking ==
    \A h \in Writers :
      /\ NextToArrive(h) => \A d \in Deliveries : ENABLED YayayWebhookHandler(h, d.sig, d.body)
      /\ hpc[h] = "spawned" => ENABLED Respond(h)
      /\ tpc[h] = "create" => ENABLED (CreateTable(h) /\ tpc'[h] = "clock")
      /\ tpc[h] = "clock" => ENABLED ReadNow(h)
      /\ tpc[h] = "exec" => ENABLED (ExecUpsert(h) /\ err'[h] = "")

\* C14 witness: the task of an earlier request has not returned (it is stopped
\* before its write), and a later request with another id has been answered
\* and saved.
C14_Witness ==
    \E g, h \in Handlers :
      /\ g < h /\ tpc[g] \in {"create", "clock", "exec"}
      /\ req[g].ID # req[h].ID
      /\ hpc[h] = "done" /\ resp[h] = Received /\ Saved(h)

\* the bodies that differ from the one received in exactly one of the nine
\* fields, and still decode
OneFieldChanges(body) ==
    LET changed ==
               {[body EXCEPT !.id = v] : v \in {"abc123", "abc124"}}
          \cup {[body EXCEPT !.amount = v] : v \in SingleAmounts}
          \cup {[body EXCEPT !.currency = v] : v \in {"ETB", "ETC"}}
          \cup {[body EXCEPT !.created_at_time = v] : v \in {T0, T0 + 1}}
          \cup {[body EXCEPT !.timestamp = v] : v \in SingleTimestamps}
          \cup {[body EXCEPT !.cause = v] : v \in {"Testing", "Testin"}}
          \cup {[body EXCEPT !.full_name = v] : v \in {"Abebe Kebede", "Abebe Kebedd"}}
          \cup {[body EXCEPT !.account_name = v] : v \in {"abebekebede1", "abebekebede2"}}
          \cup {[body EXCEPT !.invoice_url = v] : v \in {body.invoice_url, body.invoice_url \o "y"}}
    IN  {b \in changed : b # body /\ Decodes(b)}

\* C15 (as claimed): the token with which a delivery was accepted is not
\* accepted by verifySignature for any event that differs from the one
\* received in a single field, a change of the amount's decimal text included.
C15_SingleFieldSensitivity ==
    \A h \in Handlers :
      Accepted(h) =>
        \A changed \in OneFieldChanges(request[h].body) :
          ~verifySignature(request[h].sig, Decode(changed))

\* invocation h ran verifySignature
Verified(h) == Accepted(h) \/ resp[h] = ErrInvalidSignature

\* C16 (as claimed): the comparison in verifySignature examines every
\* character of the reconstructed signature, wherever the provided token
\* first differs from it and whether or not the lengths are equal.
C16_ConstantTimeComparison ==
    \A h \in Handlers :
      Verified(h) =>
        ComparedCharacters(request[h].sig, generateSignature(SecretKey, req[h])) = DigestLen

\* the delivery of invocation h has a signature header, decodes, was fresh at
\* some time of the run so far, and carries the signature of the receiver's key
PassedChecks(h) ==
    /\ request[h].sig # NoSignature
    /\ Decodes(request[h].body)
    /\ \E t \in T0..clock : InWindow(request[h].body.timestamp, t)
    /\ request[h].sig = generateSignature(SecretKey, Decode(request[h].body))

\* invocation h answered with an error
Rejected(h) == hpc[h] = "done" /\ resp[h] # Received

\* C17: a request that failed a check has no ingestion task, so nothing is
\* written for it; every row has the id and the payload of a request that
\* passed the four checks and whose ingestion returned nil.
C17_WritesOnlyForAccepted ==
    /\ \A h \in Handlers :
         /\ Rejected(h) => tpc[h] = "none"
         /\ tpc[h] # "none" => PassedChecks(h) /\ req[h] = Decode(request[h].body)
    /\ \A k \in 1..Len(webhooks) :
         \E h \in Handlers :
           /\ PassedChecks(h) /\ Saved(h)
           /\ request[h].body.id = webhooks[k].id
           /\ Payload(webhooks[k]) = PayloadOf(h)

\* C17 witness: a delivery with a forged signature was rejected and its id has
\* no row, while another delivery has been stored.
C17_Witness ==
    \E g \in Handlers :
      /\ Rejected(g) /\ resp[g] = ErrInvalidSignature
      /\ RowsOf(request[g].body.id) = {}
      /\ Len(webhooks) > 0

\* C18: once the table exists, the CREATE TABLE IF NOT EXISTS statement
\* succeeds and returns the rows as they are; the create-table step of every
\* pending ingestion and of both read handlers can succeed, and no such step,
\* succeeding or failing, changes a row.
C18_SchemaIdempotent ==
    tableExists =>
      /\ CreateTableIfNotExists(tableExists, webhooks).ok
      /\ CreateTableIfNotExists(tableExists, webhooks).rows = webhooks
      /\ \A h \in Handlers :
           tpc[h] = "create" =>
             /\ ENABLED (CreateTable(h) /\ tpc'[h] = "clock")
             /\ ~ENABLED (CreateTable(h) /\ (webhooks' # webhooks \/ ~tableExists'))
      /\ \A path \in LookupPaths :
           /\ (rpc.get = "idle" /\ Len(path) > Len(WebhookPath)) =>
                ENABLED (GetWebhookHandler(path) /\ rpc'.get = "select")
           /\ ~ENABLED (GetWebhookHandler(path) /\ (webhooks' # webhooks \/ ~tableExists'))
      /\ rpc.debug = "idle" => ENABLED (DebugWebhooksHandler /\ rpc'.debug = "select")
      /\ ~ENABLED (DebugWebhooksHandler /\ (webhooks' # webhooks \/ ~tableExists'))
      /\ ~ENABLED (GetWebhookQuery /\ (webhooks' # webhooks \/ ~tableExists'))
      /\ ~ENABLED (DebugWebhooksQuery /\ (webhooks' # webhooks \/ ~tableExists'))

\* C18 witness: a row exists, a second ingestion of its id ran its
\* create-table step after the row was written, and a lookup has returned the
\* row.
C18_Witness ==
    /\ \E g, h \in Handlers : Saved(g) /\ g \in startedAfter[h] /\ tpc[h] = "clock"
    /\ Len(webhooks) > 0
    /\ readResp.kind = "webhook"

\* C19 (as claimed): every stored row has created_at <= updated_at, also when
\* two ingestions of one id read the clock in one order and commit in the
\* other.
C19_CreatedBeforeUpdated ==
    \A k \in 1..Len(webhooks) : webhooks[k].created_at <= webhooks[k].updated_at

\* C20: a call of saveWebhookToDatabase that returns an error changes no row.
\* Every step of a call other than the committing upsert, the step that
\* returns the error included, leaves the table as it is; and a call that
\* returned an error has not committed.
C20_ErrorLeavesRows ==
    [][\A h \in Handlers :
         /\ (tpc'[h] # tpc[h] /\ ~Commits(h)) => webhooks' = webhooks
         /\ Fails(h) => webhooks' = webhooks /\ h \notin latest'
         /\ Commits(h) => err'[h] = "" /\ h \in latest']_vars

\* C20 witness: the write of a second delivery of a stored id failed; the row
\* still holds the payload and the write time of the first.
C20_Witness ==
    \E g, h \in Handlers :
      /\ Saved(g) /\ SameId(g, h) /\ PayloadOf(g) # PayloadOf(h)
      /\ g \in startedAfter[h]
      /\ tpc[h] = "done" /\ err[h] = "failed to insert webhook"
      /\ \A k \in RowsOf(req[g].ID) :
           Payload(webhooks[k]) = PayloadOf(g) /\ webhooks[k].updated_at = now[g]

\* the nine fields a lookup returns for the event of invocation h
WebhookOf(h) ==
    [id              |-> req[h].ID,
     amount          |-> DecimalString(req[h].Amount),
     currency        |-> req[h].Currency,
     created_at_time |-> req[h].CreatedAtTime,
     timestamp       |-> req[h].TimeStamp,
     cause           |-> req[h].Cause,
     full_name       |-> req[h].FullName,
     account_name    |-> req[h].AccountName,
     invoice_url     |-> req[h].InvoiceURL]

\* C21: at any point of any interleaving with the ingestions, a lookup of an
\* id that the store answers says "webhook not found" exactly when no
\* ingestion of that id has committed; otherwise it returns one webhook, whose
\* nine fields are, all of them, those of the accepted delivery of that id
\* whose upsert committed last.
C21_LookupConsistent ==
    [][\A id \in LookupIds \ {""} :
         (GetWebhookQuery /\ rpc.id = id) =>
           /\ readResp'.kind \in {"error", "response", "webhook"}
           /\ readResp'.kind = "error" => readResp' = DatabaseError
           /\ readResp'.kind = "response" => readResp' = ErrNotFound /\ Stage(id) = 0
           /\ readResp'.kind = "webhook" =>
                /\ Stage(id) >= 1
                /\ \E h \in latest :
                     /\ Accepted(h) /\ Saved(h) /\ req[h].ID = id
                     /\ readResp'.webhooks = <<WebhookOf(h)>>
           /\ Stage(id) = 0 => readResp'.kind # "webhook"
           /\ Stage(id) >= 1 => readResp'.kind # "response"]_vars

\* C21 witness: a lookup began when its id had no row; before its SELECT, two
\* concurrent ingestions of the id with different payloads committed; the
\* lookup can now answer, with the fields of the one that committed last.
C21_Witness ==
    /\ rpc.get = "select" /\ rpc.began = 0
    /\ \E g, h \in Handlers :
         /\ g # h /\ SameId(g, h) /\ req[h].ID = rpc.id /\ PayloadOf(g) # PayloadOf(h)
         /\ Saved(g) /\ Saved(h) /\ h \in latest
         /\ g \notin startedAfter[h] /\ h \notin startedAfter[g]
         /\ ENABLED (GetWebhookQuery /\ readResp'.webhooks = <<WebhookOf(h)>>)

====
